---- MODULE Spec2Model ----
(***************************************************************************)
(* Replicated key-value store: storage nodes (src/node/app.py) behind a    *)
(* routing gateway (src/load_balancer/load_balancer.py).                   *)
(*                                                                         *)
(* Part 1: data model, the node's local store, the hash ring.              *)
(* Part 2: the state, the node and gateway handlers, the specifications.   *)
(* Part 3: the properties.                                                 *)
(***************************************************************************)
EXTENDS Integers, Sequences, FiniteSets, TLC

(***************************************************************************)
(* Configuration (environment driven in the source) and model bounds.      *)
(***************************************************************************)

\* load_balancer.py:14 / app.py:20 -- replica count per key (default).
REPLICATION_FACTOR == 3

\* load_balancer.py:15 / app.py:21 -- virtual nodes per node (NUM_VNODES=2).
NUM_VNODES == 2

\* load_balancer.py:17 -- maximal age of the gateway's snapshot, in clock
\* units (RING_STABLE_PERIOD=1).
RING_STABLE_PERIOD == 1

\* load_balancer.py:19 -- gateway admission cap (GATEWAY_IN_FLIGHT_LIMIT=1).
IN_FLIGHT_LIMIT == 1

\* app.py:30
MAX_IN_FLIGHT == 2

\* load_balancer.py:106 -- max_retries of retry_with_backoff
max_retries == 3

\* app.py:35, in clock steps
DEAD_TIMEOUT == 1

\* The wall clock time.time() runs over 1..MaxTime.
MaxTime == 3

\* The timestamps a caller supplies run over 1..MaxTs.
MaxTs == 2

\* Node addresses: http://node1:5000 .. http://node4:5000.
Nodes == {"n1", "n2", "n3", "n4"}

\* sorted() over the address strings.
NodeOrd == [n \in Nodes |-> CASE n = "n1" -> 1 [] n = "n2" -> 2
                              [] n = "n3" -> 3 [] n = "n4" -> 4]

\* The address every node and the gateway are given as SEED_NODE.
SEED_NODE == "n1"

Keys == {"key2"}

Values == {"a", "b"}

RequestIds == {"r1", "r2"}

\* A request id is the idempotency token of one client write
\* (client.py:14: one id per set_value call, reused by its retries), so a
\* client submits it with one value.
value_of == [r \in RequestIds |-> IF r = "r1" THEN "a" ELSE "b"]

\* Caller-supplied timestamps.
Timestamps == 1..MaxTs

\* All timestamps: a caller's or a clock reading.
AllTimestamps == 1..(IF MaxTs >= MaxTime THEN MaxTs ELSE MaxTime)

(***************************************************************************)
(* Records.  A row of the kv table is (value, ts, request_id); None is the *)
(* absent row (fetchone() returning None, JSON null).                      *)
(***************************************************************************)

None == [value |-> "", ts |-> 0, request_id |-> ""]

Record == [value : Values, ts : AllTimestamps, request_id : RequestIds]

Row == Record \cup {None}

EmptyDb == [k \in Keys |-> None]

\* app.py:47-53 -- SELECT key FROM kv.
get_all_local_keys(db) == {k \in Keys : db[k] # None}

\* app.py:77-85 -- the stored row of a key, or None.
internal_get_local(db, key) == db[key]

\* A variant of the store that lets an incoming write with an older ts
\* replace the stored row (the ts comparison dropped).
internal_set_local_no_ts_check(db, key, value, ts, req_id) ==
    LET row == db[key] IN
    IF row # None /\ row.request_id = req_id
    THEN [db |-> db, result |-> TRUE]
    ELSE [db |-> [db EXCEPT ![key] =
                     [value |-> value, ts |-> ts, request_id |-> req_id]],
          result |-> TRUE]

\* app.py:55-75 -- compare-and-swap under db_write_lock.  Returns the new
\* table and the function's return value.
internal_set_local(db, key, value, ts, req_id) ==
    LET row == db[key] IN
    IF row # None /\ row.request_id = req_id
    THEN [db |-> db, result |-> TRUE]
    ELSE IF row # None /\ ts < row.ts
    THEN [db |-> db, result |-> FALSE]
    ELSE [db |-> [db EXCEPT ![key] =
                     [value |-> value, ts |-> ts, request_id |-> req_id]],
          result |-> TRUE]

(***************************************************************************)
(* Hash ring.  get_hash is SHA-1 read as an integer; the ring only uses    *)
(* the order of the hashes, so each label and key carries the rank of its  *)
(* SHA-1 value among the labels "http://node<i>:5000-vn<v>" and the keys.  *)
(***************************************************************************)

\* app.py:190-191, load_balancer.py:33-34 on the vnode label "<n>-vn<v>".
get_hash_label(n, v) ==
    CASE n = "n4" /\ v = 1 -> 0
      [] n = "n3" /\ v = 1 -> 2
      [] n = "n1" /\ v = 0 -> 3
      [] n = "n2" /\ v = 1 -> 4
      [] n = "n3" /\ v = 0 -> 6
      [] n = "n2" /\ v = 0 -> 7
      [] n = "n4" /\ v = 0 -> 8
      [] n = "n1" /\ v = 1 -> 9

\* app.py:190-191, load_balancer.py:33-34 on a key.
get_hash_key(k) ==
    CASE k = "key7" -> -1 [] k = "key1" -> 1 [] k = "key2" -> 5 [] k = "key17" -> 10

\* The keys placements are computed for: key7 hashes below every label and
\* key17 above every label, so that the walk of key17 starts by wrapping.
RingKeys == {"key1", "key2", "key7", "key17"}

\* Tuple order of sorted(zip(ring, node_refs)): by hash, then by address.
EntryLess(a, b) ==
    \/ a[1] < b[1]
    \/ a[1] = b[1] /\ NodeOrd[a[2]] < NodeOrd[b[2]]

RECURSIVE SortEntries(_)
SortEntries(S) ==
    IF S = {} THEN <<>>
    ELSE LET m == CHOOSE x \in S : \A y \in S \ {x} : EntryLess(x, y)
         IN  <<m>> \o SortEntries(S \ {m})

\* app.py:193-209, load_balancer.py:36-53 -- the sorted list of
\* (hash, address) over the given ready nodes (a set; the source sorts it).
build_ring(ready) ==
    SortEntries({<<get_hash_label(n, v), n>> : n \in ready, v \in 0..(NUM_VNODES - 1)})

\* A start position taken from the hash modulo the ring length.
bisect_mod(ring, key_hash) == key_hash % Len(ring)

\* bisect.bisect(ring, key_hash): the number of entries with hash <= key_hash.
bisect(ring, key_hash) ==
    Cardinality({i \in 1..Len(ring) : ring[i][1] <= key_hash})

\* The owner walk without the seen set: every position yields an owner.
RECURSIVE walk_no_seen(_, _, _, _, _)
walk_no_seen(ring, idx, i, owners, rf) ==
    IF i = Len(ring) \/ Len(owners) = rf THEN owners
    ELSE walk_no_seen(ring, idx, i + 1,
                      Append(owners, ring[((idx + i) % Len(ring)) + 1][2]), rf)

\* The owner walk: i runs over range(len(ring)); stop at rf distinct owners.
RECURSIVE walk(_, _, _, _, _)
walk(ring, idx, i, owners, rf) ==
    IF i = Len(ring) \/ Len(owners) = rf THEN owners
    ELSE LET pos == (idx + i) % Len(ring)
             node == ring[pos + 1][2]
         IN  IF \E j \in 1..Len(owners) : owners[j] = node
             THEN walk(ring, idx, i + 1, owners, rf)
             ELSE walk(ring, idx, i + 1, Append(owners, node), rf)

\* app.py:211-227, load_balancer.py:55-80 -- owners of a key over a set of
\* ready nodes.
owners_over(ready, key, rf) ==
    LET ring == build_ring(ready) IN
    IF Len(ring) = 0 THEN <<>>
    ELSE walk(ring, bisect(ring, get_hash_key(key)), 0, <<>>, rf)

\* The owner lists, tabulated once per ready set and key.
OwnerTable ==
    {<<S, k, owners_over(S, k, REPLICATION_FACTOR)>> : S \in SUBSET Nodes, k \in RingKeys}

owners_of(ready, key) ==
    (CHOOSE e \in OwnerTable : e[1] = ready /\ e[2] = key)[3]

Range(s) == {s[i] : i \in 1..Len(s)}


(***************************************************************************)
(* Part 2: state.                                                          *)
(***************************************************************************)

VARIABLES
    main_pc,            \* per node: position of __main__ (app.py:392-406)
    known_nodes,        \* per node: app.py:23
    node_states,        \* per node: app.py:25
    dead_nodes,         \* per node: app.py:27
    kv,                 \* per node: the kv table of DB_FILE
    gw_known_nodes,     \* load_balancer.py:28
    gw_node_states,     \* load_balancer.py:29
    last_ring_update,   \* load_balancer.py:30
    gw_in_flight,       \* load_balancer.py:20
    now,                \* time.time()
    resp,               \* the gateway response produced by the last step
    hist_acked,         \* per key: greatest ts of a /set answered 200
    hist_strong,        \* per key: the same, over the /set whose write
                        \* quorum held a record of at least that ts
    dup,                \* the SET (or request) that is delivered repeatedly
    kv_once,            \* per node: the table had every delivery (or
                        \* submission) of dup after its first been left out
    dl,                 \* per node: deliveries of dup so far (0, 1, 2 for
                        \* more than one) and what else was delivered:
                        \* "none", "other", "tie" or "alias"
    retry               \* submissions of dup to the gateway so far (0, 1,
                        \* 2) and the nodes that applied the first

VARIABLES
    owners_out,         \* the last placement computed: the key, the view it
                        \* was computed over and the owner lists returned
    in_flight,          \* per node: app.py:31
    threads,            \* per request thread: the handler it is executing
    node_resp,          \* the node response produced by the last step
    rpc,                \* one call of retry_with_backoff: what fn() gave on
                        \* each attempt so far and what the call returned
    node_last_seen,     \* per node: app.py:26, 0 for a peer without entry
    gsp                 \* per node: the locals of the gossip thread between
                        \* the two halves of its merge of a reply

VARIABLES
    db_write_lock,      \* per node: app.py:33, the thread holding it or "free"
    set_calls,          \* per node and thread: the call of internal_set_local
                        \* the thread is executing and the row it selected
    delivered           \* per node: the SETs whose internal_set_local call
                        \* returned, in the order of their return

\* The state of the calls of internal_set_local in progress.
lww_vars == <<db_write_lock, set_calls, delivered>>

\* The state that only some of the specifications move.
ext_vars == <<owners_out, in_flight, threads, node_resp, rpc, node_last_seen, gsp,
              lww_vars>>

\* ext_vars without node_last_seen.
call_vars == <<owners_out, in_flight, threads, node_resp, rpc, gsp, lww_vars>>

vars == <<main_pc, known_nodes, node_states, dead_nodes, kv, gw_known_nodes,
          gw_node_states, last_ring_update, gw_in_flight, now, resp,
          hist_acked, hist_strong, dup, kv_once, dl, retry, ext_vars>>

obs_vars == <<dup, kv_once, dl, retry>>

node_vars == <<main_pc, known_nodes, node_states, dead_nodes>>

gw_view_vars == <<gw_known_nodes, gw_node_states, last_ring_update>>

hist_vars == <<hist_acked, hist_strong>>

States == {"absent", "joining", "ready"}

NoStates == [m \in Nodes |-> "absent"]

\* A node serves HTTP once __main__ reached app.run (app.py:406).
Serving(n) == main_pc[n] = "ready"

(***************************************************************************)
(* Node: membership view and placement.                                    *)
(***************************************************************************)

\* app.py:186-188
get_live_ready_nodes(n) ==
    {m \in known_nodes[n] : node_states[n][m] = "ready" /\ m \notin dead_nodes[n]}

\* app.py:211-227 over the node's own view.
node_get_owner_nodes(n, key) == owners_of(get_live_ready_nodes(n), key)

\* app.py:327 and app.py:360 -- the ready peers of a node.
ready_peers(n) ==
    {m \in known_nodes[n] : m # n /\ node_states[n][m] = "ready" /\ m \notin dead_nodes[n]}

(***************************************************************************)
(* Gateway: snapshot, stability gate, placement, quorum.                   *)
(***************************************************************************)

\* load_balancer.py:38
gw_ready_nodes == {m \in gw_known_nodes : gw_node_states[m] = "ready"}

\* The stability gate without the age test.
is_ring_stable_no_age == Cardinality(gw_ready_nodes) > 0

\* load_balancer.py:101-104
is_ring_stable ==
    (now - last_ring_update) < RING_STABLE_PERIOD /\ Cardinality(gw_ready_nodes) > 0

\* load_balancer.py:55-80 over the gateway's snapshot.
gw_get_owner_nodes(key) == owners_of(gw_ready_nodes, key)

Max2(a, b) == IF a >= b THEN a ELSE b

\* A quorum one short of a majority.
quorum_without_plus_one(n) == Max2(n \div 2, 1)

\* load_balancer.py:149 and :183 -- W = R = max(len(owners) // 2 + 1, 1).
quorum(n) == Max2(n \div 2 + 1, 1)


(***************************************************************************)
(* Gateway responses.  resp holds the response of the request handled by   *)
(* the last step (op = "none" after any other step), with what the handler *)
(* saw: the number of owners whose RPC answered 200, the records          *)
(* collected by a read and the number of owners contacted.                 *)
(***************************************************************************)

NoResp ==
    [op |-> "none", status |-> 0, body |-> "", key |-> "", value |-> "",
     ts |-> 0, request_id |-> "", answered |-> 0, results |-> <<>>,
     contacted |-> 0]

\* The net outcome of retry_with_backoff (load_balancer.py:106-119) around
\* one owner's RPC: "ok" - an attempt ran the handler and its 200 arrived;
\* "fail" - None after the last attempt (connection error, timeout, 503).
RpcOutcomes == {"ok", "fail"}

\* The outcomes an RPC to node n can have: a node that does not serve
\* never runs a handler.
outcomes_of(n) == IF Serving(n) THEN RpcOutcomes ELSE {"fail"}

\* load_balancer.py:152-163 -- the fan-out of /internal/set over the owners
\* (app.py:102-112 at each): the stores afterwards.
set_fanout(store, owners, key, value, ts, req_id, outs) ==
    [n \in Nodes |->
        IF n \in Range(owners) /\ outs[n] = "ok"
        THEN internal_set_local(store[n], key, value, ts, req_id).db
        ELSE store[n]]

\* Every owner counted as a success, whatever its RPC returned.
set_successes_all(owners, outs) == Range(owners)

\* load_balancer.py:160-161 -- the owners counted as successes.
set_successes(owners, outs) == {n \in Range(owners) : outs[n] = "ok"}

\* The read loop without the early exit.
RECURSIVE get_loop_no_break(_, _, _, _, _, _, _)
get_loop_no_break(store, owners, key, R, outs, i, results) ==
    IF i > Len(owners) THEN [results |-> results, contacted |-> Len(owners)]
    ELSE LET n == owners[i]
             v == IF outs[n] = "ok" THEN internal_get_local(store[n], key) ELSE None
         IN  get_loop_no_break(store, owners, key, R, outs, i + 1,
                               IF v # None THEN Append(results, v) ELSE results)

\* load_balancer.py:184-196 -- the read loop over the owners, from owner i
\* on: collect the non-null values, stop at R of them.
RECURSIVE get_loop(_, _, _, _, _, _, _)
get_loop(store, owners, key, R, outs, i, results) ==
    IF i > Len(owners) THEN [results |-> results, contacted |-> Len(owners)]
    ELSE LET n == owners[i]
             v == IF outs[n] = "ok" THEN internal_get_local(store[n], key) ELSE None
             results2 == IF v # None THEN Append(results, v) ELSE results
         IN  IF Len(results2) >= R
             THEN [results |-> results2, contacted |-> i]
             ELSE get_loop(store, owners, key, R, outs, i + 1, results2)

\* The first collected record, whatever its ts.
latest_first(results) == results[1]

\* load_balancer.py:199 -- max(results, key=ts): the first record of
\* maximal ts.
latest_of(results) ==
    LET m == CHOOSE t \in {results[i].ts : i \in 1..Len(results)} :
                 \A j \in 1..Len(results) : results[j].ts <= t
        i == CHOOSE i \in 1..Len(results) :
                 /\ results[i].ts = m
                 /\ \A j \in 1..(i - 1) : results[j].ts # m
    IN  results[i]

(***************************************************************************)
(* Actions.                                                                *)
(***************************************************************************)

\* The clock advances.
Tick ==
    /\ now < MaxTime
    /\ now' = now + 1
    /\ resp' = NoResp
    /\ UNCHANGED <<ext_vars, node_vars, kv, gw_view_vars, gw_in_flight, hist_vars, obs_vars>>

\* load_balancer.py:82-99 -- one iteration of poll_nodes that got a 200
\* from the seed's /nodes (app.py:138-145).
PollNodes ==
    /\ Serving(SEED_NODE)
    /\ gw_known_nodes' = known_nodes[SEED_NODE]
    /\ gw_node_states' = node_states[SEED_NODE]
    /\ last_ring_update' = now
    /\ resp' = NoResp
    /\ UNCHANGED <<ext_vars, node_vars, kv, gw_in_flight, now, hist_vars, obs_vars>>

\* The acknowledged-write history after a /set response.
acked_after(h, r) ==
    IF r.op = "set" /\ r.status = 200
    THEN [h EXCEPT ![r.key] = Max2(@, r.ts)]
    ELSE h

strong_after(h, r, store, owners) ==
    IF /\ r.op = "set" /\ r.status = 200
       /\ Cardinality({n \in Range(owners) : store[n][r.key].ts >= r.ts})
              >= quorum(Len(owners))
    THEN [h EXCEPT ![r.key] = Max2(@, r.ts)]
    ELSE h

\* load_balancer.py:136-172 -- the body of the /set handler.  ts is the
\* caller's ts or time.time(); req_id the caller's or a generated one.
gateway_set_body(key, value, req_id, ts, outs) ==
    LET owners == gw_get_owner_nodes(key)
        W == quorum(Len(owners))
        ok == set_successes(owners, outs)
        base == [NoResp EXCEPT !.op = "set", !.key = key, !.value = value,
                               !.ts = ts, !.request_id = req_id]
    IN  IF ~is_ring_stable
        THEN [kv |-> kv, resp |-> [base EXCEPT !.status = 503, !.body = "not stable"]]
        ELSE IF Len(owners) = 0
        THEN [kv |-> kv, resp |-> [base EXCEPT !.status = 503, !.body = "no ready nodes"]]
        ELSE [kv |-> set_fanout(kv, owners, key, value, ts, req_id, outs),
              resp |-> [base EXCEPT
                  !.answered = Cardinality(ok), !.contacted = Len(owners),
                  !.status = IF Cardinality(ok) >= W THEN 200 ELSE 503,
                  !.body = IF Cardinality(ok) >= W THEN "ok" ELSE "write_failed"]]

\* load_balancer.py:121-134 -- the answer of the wrapper to a request it
\* does not admit.
gateway_overloaded(op, key) ==
    [NoResp EXCEPT !.op = op, !.key = key, !.status = 503,
                   !.body = "gateway overloaded"]

\* load_balancer.py:136-172 under with_gateway_load_shedding (:121-134),
\* entered and left in one step.
gateway_set(key, value, req_id, ts, outs) ==
    IF gw_in_flight >= IN_FLIGHT_LIMIT
    THEN [kv |-> kv,
          resp |-> [gateway_overloaded("set", key) EXCEPT
                       !.value = value, !.ts = ts, !.request_id = req_id]]
    ELSE gateway_set_body(key, value, req_id, ts, outs)

GatewaySet ==
    \E key \in Keys, req_id \in RequestIds, ts \in Timestamps :
      \E outs \in [Range(gw_get_owner_nodes(key)) -> RpcOutcomes] :
        /\ \A n \in DOMAIN outs : outs[n] \in outcomes_of(n)
        /\ LET r == gateway_set(key, value_of[req_id], req_id, ts, outs) IN
            /\ kv' = r.kv
            /\ resp' = r.resp
            /\ hist_acked' = acked_after(hist_acked, r.resp)
            /\ hist_strong' = strong_after(hist_strong, r.resp, r.kv,
                                           gw_get_owner_nodes(key))
        /\ UNCHANGED <<ext_vars, node_vars, gw_view_vars, gw_in_flight, now, obs_vars>>

\* load_balancer.py:174-204 -- the body of the /get handler.
gateway_get_body(key, outs) ==
    LET owners == gw_get_owner_nodes(key)
        R == quorum(Len(owners))
        got == get_loop(kv, owners, key, R, outs, 1, <<>>)
        base == [NoResp EXCEPT !.op = "get", !.key = key]
        seen == [base EXCEPT !.results = got.results,
                    !.contacted = got.contacted,
                    !.answered = Cardinality({j \in 1..got.contacted : outs[owners[j]] = "ok"})]
    IN  IF ~is_ring_stable
        THEN [base EXCEPT !.status = 503, !.body = "not stable"]
        ELSE IF Len(owners) = 0
        THEN [base EXCEPT !.status = 503, !.body = "no ready nodes"]
        ELSE IF Len(got.results) = 0
        THEN [seen EXCEPT !.status = 404, !.body = "not_found"]
        ELSE [seen EXCEPT !.status = 200, !.body = "value",
                          !.value = latest_of(got.results).value,
                          !.ts = latest_of(got.results).ts]

\* load_balancer.py:174-204 under with_gateway_load_shedding (:121-134),
\* entered and left in one step.
gateway_get(key, outs) ==
    IF gw_in_flight >= IN_FLIGHT_LIMIT
    THEN gateway_overloaded("get", key)
    ELSE gateway_get_body(key, outs)

GatewayGet ==
    \E key \in Keys :
      \E outs \in [Range(gw_get_owner_nodes(key)) -> RpcOutcomes] :
        /\ \A n \in DOMAIN outs : outs[n] \in outcomes_of(n)
        /\ resp' = gateway_get(key, outs)
        /\ UNCHANGED <<ext_vars, node_vars, kv, gw_view_vars, gw_in_flight, now, hist_vars, obs_vars>>

\* app.py:368-385 -- anti-entropy of one key at node n against the table of
\* a peer that lists the key.
anti_entropy_key(n, db, peerdb, key) ==
    IF n \in Range(node_get_owner_nodes(n, key))
    THEN LET local_val == internal_get_local(db, key)
             remote_val == internal_get_local(peerdb, key)
             need == \/ local_val = None
                     \/ remote_val # None /\ remote_val.ts > local_val.ts
         IN  IF need /\ remote_val # None
             THEN internal_set_local(db, key, remote_val.value, remote_val.ts,
                                     remote_val.request_id).db
             ELSE db
    ELSE db

\* The table of node n after anti-entropy of the keys in done against peer.
anti_entropy_peer(n, peer, done) ==
    [k \in Keys |->
        IF k \in done THEN anti_entropy_key(n, kv[n], kv[peer], k)[k] ELSE kv[n][k]]

\* app.py:355-387 -- the anti-entropy thread of node n working through one
\* ready peer: the peer's /internal/all_keys answered, and the keys in done
\* were processed before the round moved on (all of them, or up to an RPC
\* that raised).
AntiEntropy ==
    \E n \in Nodes, peer \in Nodes :
        /\ main_pc[n] \in {"joining", "ready"}
        /\ peer \in ready_peers(n)
        /\ Serving(peer)
        /\ \E done \in SUBSET get_all_local_keys(kv[peer]) :
              kv' = [kv EXCEPT ![n] = anti_entropy_peer(n, peer, done)]
        /\ resp' = NoResp
        /\ UNCHANGED <<ext_vars, node_vars, gw_view_vars, gw_in_flight, now, hist_vars, obs_vars>>

\* No anti-entropy round of any node against any of its ready peers changes
\* the node's store.
AntiEntropyQuiescent ==
    \A n \in Nodes, peer \in Nodes :
        (main_pc[n] \in {"joining", "ready"} /\ peer \in ready_peers(n) /\ Serving(peer))
            => anti_entropy_peer(n, peer, get_all_local_keys(kv[peer])) = kv[n]

(***************************************************************************)
(* Spec: the data plane over a fixed ready membership.  The cluster is up  *)
(* with the nodes of one of the Memberships ready and known to each other; *)
(* the gateway has just started (load_balancer.py:28-30).                  *)
(***************************************************************************)

Memberships == {{"n1"}, {"n1", "n2"}, {"n1", "n2", "n3"}}

\* app.py:23-27 for a node that is not running; a ready cluster otherwise.
InitNodes(S) ==
    /\ main_pc = [n \in Nodes |-> IF n \in S THEN "ready" ELSE "down"]
    /\ known_nodes = [n \in Nodes |-> IF n \in S THEN S ELSE {n}]
    /\ node_states = [n \in Nodes |->
                        IF n \in S THEN [m \in Nodes |-> IF m \in S THEN "ready" ELSE "absent"]
                        ELSE NoStates]
    /\ dead_nodes = [n \in Nodes |-> {}]
    /\ kv = [n \in Nodes |-> EmptyDb]

\* load_balancer.py:19-31
InitGateway ==
    /\ gw_known_nodes = {}
    /\ gw_node_states = NoStates
    /\ last_ring_update = 0
    /\ gw_in_flight = 0
    /\ now = RING_STABLE_PERIOD
    /\ resp = NoResp
    /\ hist_acked = [k \in Keys |-> 0]
    /\ hist_strong = [k \in Keys |-> 0]

NoSet == [key |-> "", value |-> "", ts |-> 0, request_id |-> ""]

\* No placement was computed.
NoOwners == [op |-> "none"]

\* The request threads of the two servers.
Threads == {"t1", "t2", "t3"}

\* A thread that executes no handler.
Idle == [pc |-> "idle", tier |-> "", ep |-> ""]

NoNodeResp == [ep |-> "", status |-> 0, body |-> ""]

\* load_balancer.py:106 -- a call of retry_with_backoff before its first
\* attempt.
NoRpc == [log |-> <<>>, result |-> "pending"]

\* The nodes that receive SETs at the same time.
LwwNodes == {"n1", "n2"}

\* The threads of a node that call internal_set_local.
LwwThreads == {"t1", "t2"}

\* A thread that is not inside internal_set_local.
NoCall == [pc |-> "idle", m |-> NoSet, row |-> None]

\* A gossip thread that is not merging a reply.
NoMerge == [pc |-> "idle", added |-> {}, states |-> [m \in Nodes |-> "absent"]]

InitExt ==
    /\ owners_out = NoOwners
    /\ in_flight = [n \in Nodes |-> 0]
    /\ threads = [t \in Threads |-> Idle]
    /\ node_resp = NoNodeResp
    /\ rpc = NoRpc
    /\ node_last_seen = [n \in Nodes |-> [p \in Nodes |-> 0]]
    /\ gsp = [n \in Nodes |-> NoMerge]
    /\ db_write_lock = [n \in LwwNodes |-> "free"]
    /\ set_calls = [n \in LwwNodes |-> [t \in LwwThreads |-> NoCall]]
    /\ delivered = [n \in LwwNodes |-> <<>>]

\* Nothing is singled out for repetition.
InitObservers ==
    /\ dup = NoSet
    /\ kv_once = [n \in Nodes |-> EmptyDb]
    /\ dl = [n \in Nodes |-> [count |-> 0, since |-> "none"]]
    /\ retry = [attempts |-> 0, first |-> {}]

Init ==
    /\ \E S \in Memberships : InitNodes(S)
    /\ InitGateway
    /\ InitExt
    /\ InitObservers

Next ==
    \/ PollNodes
    \/ GatewaySet
    \/ GatewayGet
    \/ AntiEntropy

Spec == Init /\ [][Next]_vars


(***************************************************************************)
(* SpecNode: deliveries of /internal/set to a node.  One SET, dup, drawn   *)
(* at the start, is singled out; kv_once follows the same deliveries with  *)
(* every delivery of dup after the first left out.                         *)
(***************************************************************************)

SetMessages == [key : Keys, value : Values, ts : Timestamps, request_id : RequestIds]

\* What else was delivered to a node: "alias" once another SET with the
\* request_id of dup was delivered (at any time), "tie" once a SET of
\* another request with the ts of dup was delivered after the first
\* delivery of dup, "other" for any other SET delivered after it.
since_after(d, m) ==
    IF m = dup \/ m.key # dup.key \/ d.since = "alias" THEN d.since
    ELSE IF m.request_id = dup.request_id THEN "alias"
    ELSE IF d.count = 0 \/ d.since = "tie" THEN d.since
    ELSE IF m.ts = dup.ts THEN "tie"
    ELSE "other"

\* app.py:102-112 -- POST /internal/set at node n.
InternalSet ==
    \E n \in Nodes, m \in SetMessages :
        /\ Serving(n)
        /\ kv' = [kv EXCEPT ![n] =
                    internal_set_local(@, m.key, m.value, m.ts, m.request_id).db]
        /\ kv_once' = IF m = dup /\ dl[n].count >= 1 THEN kv_once
                      ELSE [kv_once EXCEPT ![n] =
                              internal_set_local(@, m.key, m.value, m.ts, m.request_id).db]
        /\ dl' = [dl EXCEPT ![n] =
                    [count |-> IF m = dup THEN (IF @.count = 0 THEN 1 ELSE 2) ELSE @.count,
                     since |-> since_after(@, m)]]
        /\ resp' = NoResp
        /\ UNCHANGED <<ext_vars, node_vars, gw_view_vars, gw_in_flight, now, hist_vars, dup, retry>>

InitNode ==
    /\ InitNodes({SEED_NODE})
    /\ InitGateway
    /\ InitExt
    /\ dup \in SetMessages
    /\ kv_once = [n \in Nodes |-> EmptyDb]
    /\ dl = [n \in Nodes |-> [count |-> 0, since |-> "none"]]
    /\ retry = [attempts |-> 0, first |-> {}]

NextNode == InternalSet

SpecNode == InitNode /\ [][NextNode]_vars

(***************************************************************************)
(* SpecRetry: clients that leave ts to the gateway, which stamps each      *)
(* request with time.time() (load_balancer.py:145).  The clock moves on    *)
(* with every request, so no two requests are stamped alike.  One request, *)
(* dup, is submitted at most twice; kv_once follows the same requests and  *)
(* RPC outcomes with the second submission of dup left out.                *)
(***************************************************************************)

Requests == [key : Keys, value : Values, ts : {0}, request_id : RequestIds]

\* The owners whose store ran the handler of an admitted /set.
applied_by(r, outs) ==
    IF r.resp.contacted = 0 THEN {}
    ELSE {n \in Range(gw_get_owner_nodes(r.resp.key)) : outs[n] = "ok"}

\* load_balancer.py:136-172 with ts = data.get("ts") or time.time().
GatewaySetNow ==
    \E key \in Keys, req_id \in RequestIds :
      \E outs \in [Range(gw_get_owner_nodes(key)) -> RpcOutcomes] :
        LET is_dup == key = dup.key /\ req_id = dup.request_id
            r == gateway_set(key, value_of[req_id], req_id, now, outs)
        IN  /\ \A n \in DOMAIN outs : outs[n] \in outcomes_of(n)
            /\ is_dup => retry.attempts < 2
            /\ now <= MaxTime
            /\ now' = now + 1
            /\ kv' = r.kv
            /\ resp' = r.resp
            /\ hist_acked' = acked_after(hist_acked, r.resp)
            /\ hist_strong' = strong_after(hist_strong, r.resp, r.kv,
                                           gw_get_owner_nodes(key))
            /\ kv_once' =
                  IF (is_dup /\ retry.attempts >= 1) \/ r.resp.contacted = 0
                  THEN kv_once
                  ELSE set_fanout(kv_once, gw_get_owner_nodes(key), key,
                                  value_of[req_id], now, req_id, outs)
            /\ retry' =
                  IF ~is_dup THEN retry
                  ELSE [attempts |-> retry.attempts + 1,
                        first |-> IF retry.attempts = 0 THEN applied_by(r, outs)
                                  ELSE retry.first]
            /\ UNCHANGED <<ext_vars, node_vars, gw_view_vars, gw_in_flight, dup, dl>>

\* Two ready nodes, so that a submission can reach one owner of two.
InitRetry ==
    /\ InitNodes({"n1", "n2"})
    /\ InitGateway
    /\ InitExt
    /\ dup \in {m \in Requests : m.value = value_of[m.request_id]}
    /\ kv_once = [n \in Nodes |-> EmptyDb]
    /\ dl = [n \in Nodes |-> [count |-> 0, since |-> "none"]]
    /\ retry = [attempts |-> 0, first |-> {}]

NextRetry ==
    \/ Tick
    \/ PollNodes
    \/ GatewaySetNow
    \/ GatewayGet

SpecRetry == InitRetry /\ [][NextRetry]_vars

(***************************************************************************)
(* SpecScale: scale-up.  The seed is up alone; the other nodes start,      *)
(* bootstrap from the seed, run initial sync and turn ready, while the     *)
(* gossip and anti-entropy threads and the gateway run.  No node fails,    *)
(* every RPC to a serving node is answered, and clients write only before  *)
(* the first node is added.                                                *)
(***************************************************************************)

\* The membership view of node n as /nodes, /gossip and the gossip payload
\* carry it.
view_of(n) ==
    [nodes |-> known_nodes[n], states |-> node_states[n], dead_nodes |-> dead_nodes[n]]

\* app.py:304-323 -- join_cluster: the seed's view merged into the own one.
join_cluster(mine, seed_addr, their) ==
    LET dead == mine.dead_nodes \cup their.dead_nodes IN
    [nodes |-> (mine.nodes \cup their.nodes \cup {seed_addr}) \ dead,
     states |-> [m \in Nodes |->
                    IF m \in dead THEN "absent"
                    ELSE IF their.states[m] # "absent" THEN their.states[m]
                    ELSE mine.states[m]],
     dead_nodes |-> dead]

\* A /gossip handler that takes the sender's dead set for its own.
gossip_replace_dead(mine, their) ==
    [nodes |-> (mine.nodes \ their.dead_nodes) \cup (their.nodes \ their.dead_nodes),
     states |-> [m \in Nodes |->
                    IF m \in their.dead_nodes THEN "absent"
                    ELSE IF their.states[m] # "absent" THEN their.states[m]
                    ELSE mine.states[m]],
     dead_nodes |-> their.dead_nodes]

\* app.py:147-184 -- the /gossip handler's merge of the sender's view.
gossip(mine, their) ==
    LET dead == mine.dead_nodes \cup their.dead_nodes IN
    [nodes |-> (mine.nodes \ dead) \cup (their.nodes \ dead),
     states |-> [m \in Nodes |->
                    IF m \in dead
                    THEN (IF m \in mine.nodes THEN "absent" ELSE mine.states[m])
                    ELSE IF their.states[m] # "absent" THEN their.states[m]
                    ELSE mine.states[m]],
     dead_nodes |-> dead]

\* app.py:246-266 -- the gossip thread's merge of the peer's reply.
gossip_reply(mine, their) ==
    LET dead == mine.dead_nodes \cup their.dead_nodes IN
    [nodes |-> (mine.nodes \ dead) \cup (their.nodes \ dead),
     states |-> [m \in Nodes |->
                    IF m \in dead THEN "absent"
                    ELSE IF their.states[m] # "absent" THEN their.states[m]
                    ELSE mine.states[m]],
     dead_nodes |-> dead]

\* app.py:392-396 -- __main__ up to the start of the threads: bootstrap
\* from the seed (its /nodes answers when it serves), then
\* set_state("joining").
StartNode(n) ==
      \E joined \in {Serving(SEED_NODE)} :
        LET v == IF joined THEN join_cluster(view_of(n), SEED_NODE, view_of(SEED_NODE))
                 ELSE view_of(n)
        IN  /\ main_pc[n] = "down"
            /\ main_pc' = [main_pc EXCEPT ![n] = "joining"]
            /\ known_nodes' = [known_nodes EXCEPT ![n] = v.nodes]
            /\ node_states' = [node_states EXCEPT ![n] = [v.states EXCEPT ![n] = "joining"]]
            /\ dead_nodes' = [dead_nodes EXCEPT ![n] = v.dead_nodes]
            /\ resp' = NoResp
            /\ UNCHANGED <<ext_vars, kv, gw_view_vars, gw_in_flight, now, hist_vars, obs_vars>>

Start == \E n \in Nodes \ {SEED_NODE} : StartNode(n)

\* app.py:329-337 -- the keys initial sync asks for: listed by a ready peer
\* and owned by the node in its own view.
needed_keys(n, peers) ==
    {k \in Keys : /\ \E p \in peers : k \in get_all_local_keys(kv[p])
                  /\ n \in Range(node_get_owner_nodes(n, k))}

\* app.py:325-353 and :397-406 -- initial sync, set_state("ready") and the
\* start of the HTTP server.  src names, for each missing key, the peer
\* whose /internal/get_many supplied it.
InitialSyncNode(n) ==
      LET peers == {p \in ready_peers(n) : Serving(p)}
          missing == needed_keys(n, peers) \ get_all_local_keys(kv[n])
      IN  /\ main_pc[n] = "joining"
          /\ \E src \in [missing -> peers] :
                /\ \A k \in missing : kv[src[k]][k] # None
                /\ kv' = [kv EXCEPT ![n] =
                            [k \in Keys |->
                                IF k \in missing
                                THEN internal_set_local(kv[n], k, kv[src[k]][k].value,
                                                        kv[src[k]][k].ts,
                                                        kv[src[k]][k].request_id).db[k]
                                ELSE kv[n][k]]]
          /\ node_states' = [node_states EXCEPT ![n][n] = "ready"]
          /\ main_pc' = [main_pc EXCEPT ![n] = "ready"]
          /\ resp' = NoResp
          /\ UNCHANGED <<ext_vars, known_nodes, dead_nodes, gw_view_vars, gw_in_flight, now,
                         hist_vars, obs_vars>>

InitialSync == \E n \in Nodes : InitialSyncNode(n)

\* app.py:229-268 with app.py:147-184 -- the gossip thread of node n posts
\* its view to a peer, whose handler merges it and replies with the merged
\* view, which n merges in turn.  The thread sleeps before its first round
\* (app.py:232); here that round comes after initial sync.
Gossip ==
    \E n \in Nodes, peer \in Nodes :
      LET theirs == gossip(view_of(peer), view_of(n))
          mine == gossip_reply(view_of(n), theirs)
      IN  /\ main_pc[n] = "ready"
          /\ peer \in known_nodes[n] \ {n}
          /\ Serving(peer)
          /\ known_nodes' = [known_nodes EXCEPT ![peer] = theirs.nodes, ![n] = mine.nodes]
          /\ node_states' = [node_states EXCEPT ![peer] = theirs.states, ![n] = mine.states]
          /\ dead_nodes' = [dead_nodes EXCEPT ![peer] = theirs.dead_nodes,
                                              ![n] = mine.dead_nodes]
          /\ <<known_nodes', node_states', dead_nodes'>> #
                <<known_nodes, node_states, dead_nodes>>
          /\ resp' = NoResp
          /\ UNCHANGED <<ext_vars, main_pc, kv, gw_view_vars, gw_in_flight, now, hist_vars, obs_vars>>

InitScale ==
    /\ InitNodes({SEED_NODE})
    /\ InitGateway
    /\ InitExt
    /\ InitObservers

\* Every owner that serves answers its RPC.
healthy(key) ==
    [n \in Range(gw_get_owner_nodes(key)) |-> IF Serving(n) THEN "ok" ELSE "fail"]

\* load_balancer.py:136-172 -- a /set before the scale-up.
ScaleSet ==
    \E key \in Keys, req_id \in RequestIds, ts \in Timestamps :
        /\ \A n \in Nodes \ {SEED_NODE} : main_pc[n] = "down"
        /\ LET r == gateway_set(key, value_of[req_id], req_id, ts, healthy(key)) IN
            /\ kv' = r.kv
            /\ resp' = r.resp
            /\ hist_acked' = acked_after(hist_acked, r.resp)
            /\ hist_strong' = strong_after(hist_strong, r.resp, r.kv,
                                           gw_get_owner_nodes(key))
        /\ UNCHANGED <<ext_vars, node_vars, gw_view_vars, gw_in_flight, now, obs_vars>>

\* load_balancer.py:174-204 -- a /get at any time.
ScaleGet ==
    \E key \in Keys :
        /\ resp' = gateway_get(key, healthy(key))
        /\ UNCHANGED <<ext_vars, node_vars, kv, gw_view_vars, gw_in_flight, now, hist_vars, obs_vars>>

NextScale ==
    \/ Start
    \/ InitialSync
    \/ Gossip
    \/ PollNodes
    \/ ScaleSet
    \/ ScaleGet
    \/ AntiEntropy

SpecScale == InitScale /\ [][NextScale]_vars

(***************************************************************************)
(* SpecRing: placement as a function of the membership view.  The view of  *)
(* the seed node is drawn freely (known_nodes holds the node itself); the  *)
(* gateway holds the snapshot GET /nodes of the seed returns.              *)
(***************************************************************************)

RingStates == {"joining", "ready"}

InitRing ==
    /\ \E K \in SUBSET (Nodes \ {SEED_NODE}), D \in SUBSET (Nodes \ {SEED_NODE}) :
       \E st \in [K \cup {SEED_NODE} -> RingStates] :
         /\ main_pc = [n \in Nodes |-> IF n = SEED_NODE THEN "ready" ELSE "down"]
         /\ known_nodes = [n \in Nodes |-> IF n = SEED_NODE THEN K \cup {n} ELSE {n}]
         /\ node_states = [n \in Nodes |->
               IF n = SEED_NODE
               THEN [m \in Nodes |-> IF m \in DOMAIN st THEN st[m] ELSE "absent"]
               ELSE NoStates]
         /\ dead_nodes = [n \in Nodes |-> IF n = SEED_NODE THEN D ELSE {}]
         /\ gw_known_nodes = K \cup {SEED_NODE}
         /\ gw_node_states = [m \in Nodes |-> IF m \in DOMAIN st THEN st[m] ELSE "absent"]
    /\ kv = [n \in Nodes |-> EmptyDb]
    /\ last_ring_update = 0
    /\ gw_in_flight = 0
    /\ now = RING_STABLE_PERIOD
    /\ resp = NoResp
    /\ hist_acked = [k \in Keys |-> 0]
    /\ hist_strong = [k \in Keys |-> 0]
    /\ InitExt
    /\ InitObservers

\* app.py:211-227 and load_balancer.py:55-80 applied to a key, each over
\* its own view.
GetOwnerNodes ==
    \E k \in RingKeys :
      /\ owners_out' = [op |-> "owners", key |-> k,
                        node |-> node_get_owner_nodes(SEED_NODE, k),
                        gw |-> gw_get_owner_nodes(k)]
      /\ UNCHANGED <<lww_vars, node_last_seen, gsp, in_flight, threads, node_resp, rpc, node_vars, kv, gw_view_vars, gw_in_flight, now, resp,
                     hist_vars, obs_vars>>

\* load_balancer.py:82-99 -- a poll brings a snapshot in which one more
\* node is ready; the placement of a key before and after it.
RingAdd ==
    \E n \in Nodes \ gw_ready_nodes, k \in RingKeys :
      /\ gw_known_nodes' = gw_known_nodes \cup {n}
      /\ gw_node_states' = [gw_node_states EXCEPT ![n] = "ready"]
      /\ owners_out' = [op |-> "add", key |-> k, n |-> n,
                        before |-> gw_get_owner_nodes(k),
                        after |-> owners_of(gw_ready_nodes \cup {n}, k)]
      /\ UNCHANGED <<lww_vars, node_last_seen, gsp, in_flight, threads, node_resp, rpc, node_vars, kv, last_ring_update, gw_in_flight, now, resp,
                     hist_vars, obs_vars>>

\* app.py:285-291 -- the seed's health check removes a ready peer from its
\* view; the placement of a key before and after it.
RingRemove ==
    \E n \in get_live_ready_nodes(SEED_NODE) \ {SEED_NODE}, k \in RingKeys :
      /\ known_nodes' = [known_nodes EXCEPT ![SEED_NODE] = @ \ {n}]
      /\ node_states' = [node_states EXCEPT ![SEED_NODE][n] = "absent"]
      /\ dead_nodes' = [dead_nodes EXCEPT ![SEED_NODE] = @ \cup {n}]
      /\ owners_out' = [op |-> "remove", key |-> k, n |-> n,
                        before |-> node_get_owner_nodes(SEED_NODE, k),
                        after |-> owners_of(get_live_ready_nodes(SEED_NODE) \ {n}, k)]
      /\ UNCHANGED <<lww_vars, node_last_seen, gsp, in_flight, threads, node_resp, rpc, main_pc, kv, gw_view_vars, gw_in_flight, now, resp,
                     hist_vars, obs_vars>>

NextRing ==
    \/ GetOwnerNodes
    \/ RingAdd
    \/ RingRemove

SpecRing == InitRing /\ [][NextRing]_vars


(***************************************************************************)
(* SpecAdmit: admission.  Request threads enter and leave the handlers of  *)
(* the gateway and of the seed node one at a time; the test-and-increment  *)
(* and the decrement are each one step (each runs under in_flight_lock).   *)
(***************************************************************************)

\* load_balancer.py:136-137, :174-175 -- the gateway routes under
\* with_gateway_load_shedding.
GatewayEndpoints == {"set", "get"}

\* app.py:102-136 -- the internal routes of a node.
InternalEndpoints ==
    {"internal_set", "internal_get", "internal_get_many", "internal_all_keys"}

\* app.py:103, :115, :123 -- the internal routes decorated with
\* with_node_load_shedding (app.py:133-134 is not).
node_load_shed == {"internal_set", "internal_get", "internal_get_many"}

\* How a handler ends.
Exits == {"return", "raise"}

\* app.py:91, load_balancer.py:125 -- the test of the wrapper.
admit(count, cap) == ~(count >= cap)

\* A wrapper that decrements after the handler instead of in finally.
release_on_return(count, exit) == IF exit = "return" THEN count - 1 ELSE count

\* app.py:96-98, load_balancer.py:130-132 -- finally: in_flight -= 1.
release(count, exit) == count - 1

\* load_balancer.py:121-134 -- a request reaches the wrapper of a route.
GwArrive ==
    \E t \in Threads, ep \in GatewayEndpoints, key \in Keys :
      /\ threads[t].pc = "idle"
      /\ IF admit(gw_in_flight, IN_FLIGHT_LIMIT)
         THEN /\ gw_in_flight' = gw_in_flight + 1
              /\ threads' = [threads EXCEPT ![t] = [pc |-> "running", tier |-> "gateway", ep |-> ep]]
              /\ resp' = NoResp
         ELSE /\ resp' = gateway_overloaded(ep, key)
              /\ UNCHANGED <<gw_in_flight, threads>>
      /\ UNCHANGED <<lww_vars, node_last_seen, gsp, owners_out, rpc, in_flight, node_resp, node_vars, kv, gw_view_vars,
                     now, hist_vars, obs_vars>>

\* An owner's RPC of an admitted gateway request, all attempts in one
\* step: it is answered 200 only by a serving node that admits it.
admit_outcomes_of(n) ==
    IF Serving(n) /\ admit(in_flight[n], MAX_IN_FLIGHT) THEN RpcOutcomes ELSE {"fail"}

\* load_balancer.py:136-204 then :130-132 -- the handler of an admitted
\* request runs and the wrapper leaves.
GwFinish ==
    \E t \in Threads, exit \in Exits, key \in Keys, req_id \in RequestIds :
      \E outs \in [Range(gw_get_owner_nodes(key)) -> RpcOutcomes] :
        /\ threads[t].pc = "running"
        /\ threads[t].tier = "gateway"
        /\ \A n \in DOMAIN outs : outs[n] \in admit_outcomes_of(n)
        /\ LET r == IF exit = "raise"
                    THEN [kv |-> kv,
                          resp |-> [NoResp EXCEPT !.op = threads[t].ep,
                                       !.status = 500, !.body = "error"]]
                    ELSE IF threads[t].ep = "set"
                    THEN gateway_set_body(key, value_of[req_id], req_id, now, outs)
                    ELSE [kv |-> kv, resp |-> gateway_get_body(key, outs)]
           IN  /\ kv' = r.kv
               /\ resp' = r.resp
               /\ hist_acked' = acked_after(hist_acked, r.resp)
               /\ hist_strong' = strong_after(hist_strong, r.resp, r.kv,
                                              gw_get_owner_nodes(key))
        /\ gw_in_flight' = release(gw_in_flight, exit)
        /\ threads' = [threads EXCEPT ![t] = Idle]
        /\ UNCHANGED <<lww_vars, node_last_seen, gsp, owners_out, rpc, in_flight, node_resp, node_vars, gw_view_vars,
                       now, obs_vars>>

\* app.py:87-100 for a decorated route, app.py:133-134 for the other: a
\* request reaches an internal route of the seed node.
NodeArrive ==
    \E t \in Threads, ep \in InternalEndpoints :
      /\ threads[t].pc = "idle"
      /\ Serving(SEED_NODE)
      /\ IF ep \in node_load_shed /\ ~admit(in_flight[SEED_NODE], MAX_IN_FLIGHT)
         THEN /\ node_resp' = [ep |-> ep, status |-> 503, body |-> "node overloaded"]
              /\ UNCHANGED <<in_flight, threads>>
         ELSE /\ in_flight' = [in_flight EXCEPT ![SEED_NODE] =
                                   IF ep \in node_load_shed THEN @ + 1 ELSE @]
              /\ threads' = [threads EXCEPT ![t] = [pc |-> "running", tier |-> "node", ep |-> ep]]
              /\ node_resp' = NoNodeResp
      /\ UNCHANGED <<lww_vars, node_last_seen, gsp, owners_out, rpc, node_vars, kv, gw_view_vars, gw_in_flight, now,
                     resp, hist_vars, obs_vars>>

\* app.py:102-136 then :96-98 -- the handler of an internal route runs at
\* the seed node and, for a decorated route, the wrapper leaves.
NodeFinish ==
    \E t \in Threads, exit \in Exits, key \in Keys, req_id \in RequestIds :
      /\ threads[t].pc = "running"
      /\ threads[t].tier = "node"
      /\ LET ep == threads[t].ep
             r == internal_set_local(kv[SEED_NODE], key, value_of[req_id], now, req_id)
         IN  /\ IF exit = "raise"
                THEN /\ node_resp' = [ep |-> ep, status |-> 500, body |-> "error"]
                     /\ kv' = kv
                ELSE IF ep = "internal_set"
                THEN /\ node_resp' = [ep |-> ep, status |-> 200,
                                      body |-> IF r.result THEN "replicated"
                                               ELSE "old_write_ignored"]
                     /\ kv' = [kv EXCEPT ![SEED_NODE] = r.db]
                ELSE /\ node_resp' = [ep |-> ep, status |-> 200, body |-> "ok"]
                     /\ kv' = kv
             /\ in_flight' = [in_flight EXCEPT ![SEED_NODE] =
                                 IF ep \in node_load_shed THEN release(@, exit) ELSE @]
      /\ threads' = [threads EXCEPT ![t] = Idle]
      /\ UNCHANGED <<lww_vars, node_last_seen, gsp, owners_out, rpc, node_vars, gw_view_vars, gw_in_flight, now, resp,
                     hist_vars, obs_vars>>

InitAdmit ==
    /\ InitNodes({SEED_NODE})
    /\ InitGateway
    /\ InitExt
    /\ InitObservers

NextAdmit ==
    \/ PollNodes
    \/ GwArrive
    \/ GwFinish
    \/ NodeArrive
    \/ NodeFinish

SpecAdmit == InitAdmit /\ [][NextAdmit]_vars


(***************************************************************************)
(* SpecBackoff: one call of retry_with_backoff(fn) on an RPC whose         *)
(* attempts end in any of the ways an HTTP call can end.                   *)
(***************************************************************************)

\* What one fn() can give: a response with its status code, or an
\* exception (connection error, timeout).
FnOutcomes == {"200", "503", "400", "404", "500", "exception", "timeout"}

\* load_balancer.py:107-118 -- one turn of the loop: fn(), return on 200,
\* otherwise sleep and go on; :119 -- None after the last turn.
RetryAttempt ==
    \E out \in FnOutcomes :
      /\ rpc.result = "pending"
      /\ Len(rpc.log) < max_retries + 1
      /\ rpc' = [log |-> Append(rpc.log, out),
                 result |-> IF out = "200" THEN "200"
                            ELSE IF Len(rpc.log) + 1 = max_retries + 1 THEN "None"
                            ELSE "pending"]
      /\ UNCHANGED <<lww_vars, node_last_seen, gsp, owners_out, in_flight, threads, node_resp,
                     node_vars, kv, gw_view_vars, gw_in_flight, now, resp,
                     hist_vars, obs_vars>>

InitBackoff ==
    /\ InitNodes({SEED_NODE})
    /\ InitGateway
    /\ InitExt
    /\ InitObservers

NextBackoff == RetryAttempt

SpecBackoff == InitBackoff /\ [][NextBackoff]_vars


(***************************************************************************)
(* SpecFail: node failure.  Three ready nodes; one of them may be killed   *)
(* and stays down.  Health checks, gossip, the gateway's poll and the      *)
(* clock run; a client writes, and every owner that serves answers.        *)
(***************************************************************************)

ThreeNodes == {"n1", "n2", "n3"}

\* The peers a health check round of node n declares dead: their /status
\* raised and they were last seen more than DEAD_TIMEOUT ago (app.py:281).
dead_now(n) ==
    {p \in known_nodes[n] \ {n} :
        ~Serving(p) /\ now - node_last_seen[n][p] > DEAD_TIMEOUT}

\* app.py:270-291 -- one round of the health check thread of node n.
HealthCheck(n) ==
    /\ main_pc[n] # "down"
    /\ known_nodes[n] \ {n} # {}
    /\ node_last_seen' = [node_last_seen EXCEPT ![n] =
          [p \in Nodes |->
              IF p \in dead_now(n) THEN 0
              ELSE IF p \in known_nodes[n] \ {n} /\ Serving(p) THEN now
              ELSE @[p]]]
    /\ known_nodes' = [known_nodes EXCEPT ![n] = @ \ dead_now(n)]
    /\ node_states' = [node_states EXCEPT ![n] =
          [p \in Nodes |-> IF p \in dead_now(n) THEN "absent" ELSE @[p]]]
    /\ dead_nodes' = [dead_nodes EXCEPT ![n] = @ \cup dead_now(n)]
    /\ resp' = NoResp
    /\ UNCHANGED <<call_vars, main_pc, kv, gw_view_vars, gw_in_flight, now,
                   hist_vars, obs_vars>>

\* The process of a node is killed (app.py:388-389 on a signal, or the
\* container stops); its tables stay on disk.  It is killed while the
\* clock can still run past DEAD_TIMEOUT.
Kill ==
    \E n \in ThreeNodes :
      /\ \A m \in ThreeNodes : main_pc[m] = "ready"
      /\ now + DEAD_TIMEOUT < MaxTime
      /\ main_pc' = [main_pc EXCEPT ![n] = "down"]
      /\ resp' = NoResp
      /\ UNCHANGED <<ext_vars, known_nodes, node_states, dead_nodes, kv,
                     gw_view_vars, gw_in_flight, now, hist_vars, obs_vars>>

\* load_balancer.py:136-172 -- a /set stamped by the gateway's clock.
FailSet ==
    \E key \in Keys :
      /\ LET r == gateway_set(key, value_of["r1"], "r1", now, healthy(key)) IN
            /\ kv' = r.kv
            /\ resp' = r.resp
            /\ hist_acked' = acked_after(hist_acked, r.resp)
            /\ hist_strong' = strong_after(hist_strong, r.resp, r.kv,
                                           gw_get_owner_nodes(key))
      /\ UNCHANGED <<ext_vars, node_vars, gw_view_vars, gw_in_flight, now, obs_vars>>

InitFail ==
    /\ InitNodes(ThreeNodes)
    /\ InitGateway
    /\ InitExt
    /\ InitObservers

NextFail ==
    \/ Tick
    \/ PollNodes
    \/ Kill
    \/ \E n \in ThreeNodes : HealthCheck(n)
    \/ Gossip
    \/ FailSet

\* Every thread that loops on a timer keeps running (the clock, the
\* gateway's poll_nodes, each node's health check), and the client issues
\* a /set again and again.
FairFail ==
    /\ WF_vars(Tick)
    /\ WF_vars(PollNodes)
    /\ \A n \in ThreeNodes : WF_vars(HealthCheck(n))
    /\ []<><<FailSet>>_vars

SpecFail == InitFail /\ [][NextFail]_vars /\ FairFail


(***************************************************************************)
(* SpecMember: membership under concurrency.  The seed is up; two more     *)
(* nodes start, bootstrap and turn ready.  Each node runs its /gossip      *)
(* handler (under the locks), its health check (marking under the locks)   *)
(* and its gossip thread, which merges a reply without taking the locks:   *)
(* the merge is two steps, between which the other threads may run.        *)
(***************************************************************************)

\* app.py:253-256 -- the first half of the gossip thread's merge: the dead
\* set of the reply is taken over and the dead are dropped.
gossip_reply_dead(mine, their) ==
    LET dead == mine.dead_nodes \cup their.dead_nodes IN
    [nodes |-> mine.nodes \ dead,
     states |-> [m \in Nodes |-> IF m \in dead THEN "absent" ELSE mine.states[m]],
     dead_nodes |-> dead]

\* app.py:257 -- added, computed from the reply after the first half.
gossip_reply_added(mine, their) ==
    (their.nodes \ mine.dead_nodes) \ mine.nodes

\* app.py:258-262 -- the second half: known_nodes.update(added) with the
\* added computed before, then the states of the reply for the nodes that
\* are not dead now.
gossip_reply_add(mine, added, their_states) ==
    [nodes |-> mine.nodes \cup added,
     states |-> [m \in Nodes |->
                    IF m \notin mine.dead_nodes /\ their_states[m] # "absent"
                    THEN their_states[m]
                    ELSE mine.states[m]],
     dead_nodes |-> mine.dead_nodes]

\* app.py:233-257 with app.py:147-184 -- a round of the gossip thread of
\* node n up to the computation of added: the payload goes to one peer,
\* whose handler merges it and replies.
GossipSendTo(n, peer) ==
      LET theirs == gossip(view_of(peer), view_of(n))
          mine == gossip_reply_dead(view_of(n), theirs)
      IN  /\ main_pc[n] # "down"
          /\ gsp[n].pc = "idle"
          /\ peer \in known_nodes[n] \ {n}
          /\ Serving(peer)
          /\ known_nodes' = [known_nodes EXCEPT ![peer] = theirs.nodes, ![n] = mine.nodes]
          /\ node_states' = [node_states EXCEPT ![peer] = theirs.states, ![n] = mine.states]
          /\ dead_nodes' = [dead_nodes EXCEPT ![peer] = theirs.dead_nodes,
                                              ![n] = mine.dead_nodes]
          /\ gsp' = [gsp EXCEPT ![n] = [pc |-> "merge",
                                        added |-> gossip_reply_added(mine, theirs),
                                        states |-> theirs.states]]
          /\ resp' = NoResp
          /\ UNCHANGED <<lww_vars, owners_out, in_flight, threads, node_resp, rpc, node_last_seen,
                         main_pc, kv, gw_view_vars, gw_in_flight, now, hist_vars, obs_vars>>

\* app.py:258-266 -- the rest of the round.
GossipMergeOf(n) ==
      LET mine == gossip_reply_add(view_of(n), gsp[n].added, gsp[n].states) IN
          /\ gsp[n].pc = "merge"
          /\ known_nodes' = [known_nodes EXCEPT ![n] = mine.nodes]
          /\ node_states' = [node_states EXCEPT ![n] = mine.states]
          /\ gsp' = [gsp EXCEPT ![n] = NoMerge]
          /\ resp' = NoResp
          /\ UNCHANGED <<lww_vars, owners_out, in_flight, threads, node_resp, rpc, node_last_seen,
                         main_pc, dead_nodes, kv, gw_view_vars, gw_in_flight, now,
                         hist_vars, obs_vars>>

\* app.py:242-243 -- the round goes to a peer drawn by random.sample.
GossipSend == \E n \in ThreeNodes, peer \in ThreeNodes : GossipSendTo(n, peer)

GossipMerge == \E n \in ThreeNodes : GossipMergeOf(n)

\* The clock reads more than DEAD_TIMEOUT, as for any process started
\* today: a peer without node_last_seen entry is past the timeout.
InitMember ==
    /\ InitNodes({SEED_NODE})
    /\ gw_known_nodes = {}
    /\ gw_node_states = NoStates
    /\ last_ring_update = 0
    /\ gw_in_flight = 0
    /\ now = DEAD_TIMEOUT + 1
    /\ resp = NoResp
    /\ hist_acked = [k \in Keys |-> 0]
    /\ hist_strong = [k \in Keys |-> 0]
    /\ InitExt
    /\ InitObservers

NextMember ==
    \/ \E n \in ThreeNodes \ {SEED_NODE} : StartNode(n)
    \/ \E n \in ThreeNodes : InitialSyncNode(n)
    \/ \E n \in ThreeNodes : HealthCheck(n)
    \/ GossipSend
    \/ GossipMerge

SpecMember == InitMember /\ [][NextMember]_vars

\* Fair gossip scheduling with the seed as the hub: every other node is
\* started, the loop of its gossip thread goes on for ever (app.py:231) and
\* random.sample (app.py:243) draws the seed, which it always knows and
\* which always answers, again and again; its main thread gets through
\* initial sync (app.py:397-401).
FairMember ==
    /\ \A n \in ThreeNodes \ {SEED_NODE} : []<><<GossipSendTo(n, SEED_NODE)>>_vars
    /\ \A n \in ThreeNodes \ {SEED_NODE} : WF_vars(InitialSyncNode(n))

SpecMemberFair == InitMember /\ [][NextMember]_vars /\ FairMember


(***************************************************************************)
(* SpecLww: calls of internal_set_local on two serving nodes.  On each     *)
(* node the request threads of /internal/set, the initial sync and the     *)
(* anti-entropy thread call the function at the same time; a call waits    *)
(* for db_write_lock, then SELECTs and REPLACEs as two steps inside it.    *)
(***************************************************************************)

\* The calls made in one behaviour, over both nodes.
MaxCalls == 4

\* The SETs delivered: a request_id carries one value.
LwwMessages == {m \in SetMessages : m.value = value_of[m.request_id]}

\* Entering "with db_write_lock" without waiting.
can_acquire_always(lock) == TRUE

\* app.py:56 -- "with db_write_lock" is entered when no thread holds it.
can_acquire(lock) == lock = "free"

\* app.py:59-60 -- the row the SELECT returns.
select_row(db, key) == db[key]

\* app.py:61-75 -- what the call does after the SELECT gave row: return on
\* an equal request_id or a smaller ts, REPLACE otherwise.
replace_row(db, row, m) ==
    IF row # None /\ row.request_id = m.request_id THEN db
    ELSE IF row # None /\ m.ts < row.ts THEN db
    ELSE [db EXCEPT ![m.key] =
            [value |-> m.value, ts |-> m.ts, request_id |-> m.request_id]]

\* The calls that were started on any node.
calls_made ==
    LET started(n) == Cardinality({t \in LwwThreads : set_calls[n][t].pc # "idle"}) IN
    Len(delivered["n1"]) + Len(delivered["n2"]) + started("n1") + started("n2")

\* app.py:55 -- thread t of node n calls internal_set_local with SET m and
\* waits for the lock.
SetLocalCall ==
    \E n \in LwwNodes, t \in LwwThreads, m \in LwwMessages :
      /\ Serving(n)
      /\ set_calls[n][t].pc = "idle"
      /\ calls_made < MaxCalls
      /\ set_calls' = [set_calls EXCEPT ![n][t] =
                         [pc |-> "called", m |-> m, row |-> None]]
      /\ resp' = NoResp
      /\ UNCHANGED <<db_write_lock, delivered, owners_out, in_flight, threads,
                     node_resp, rpc, node_last_seen, gsp, node_vars, kv,
                     gw_view_vars, gw_in_flight, now, hist_vars, obs_vars>>

\* app.py:56-60 -- the thread takes the lock and selects the row of the key.
SetLocalSelect ==
    \E n \in LwwNodes, t \in LwwThreads :
      /\ set_calls[n][t].pc = "called"
      /\ can_acquire(db_write_lock[n])
      /\ db_write_lock' = [db_write_lock EXCEPT ![n] = t]
      /\ set_calls' = [set_calls EXCEPT ![n][t] =
                         [pc |-> "selected", m |-> set_calls[n][t].m,
                          row |-> select_row(kv[n], set_calls[n][t].m.key)]]
      /\ resp' = NoResp
      /\ UNCHANGED <<delivered, owners_out, in_flight, threads, node_resp, rpc,
                     node_last_seen, gsp, node_vars, kv, gw_view_vars, gw_in_flight,
                     now, hist_vars, obs_vars>>

\* app.py:61-75 -- the rest of the call: compare, REPLACE, leave the lock.
SetLocalReplace ==
    \E n \in LwwNodes, t \in LwwThreads :
      /\ set_calls[n][t].pc = "selected"
      /\ kv' = [kv EXCEPT ![n] = replace_row(@, set_calls[n][t].row, set_calls[n][t].m)]
      /\ db_write_lock' = [db_write_lock EXCEPT ![n] = "free"]
      /\ set_calls' = [set_calls EXCEPT ![n][t] = NoCall]
      /\ delivered' = [delivered EXCEPT ![n] = Append(@, set_calls[n][t].m)]
      /\ resp' = NoResp
      /\ UNCHANGED <<owners_out, in_flight, threads, node_resp, rpc, node_last_seen,
                     gsp, node_vars, gw_view_vars, gw_in_flight, now, hist_vars,
                     obs_vars>>

InitLww ==
    /\ InitNodes(LwwNodes)
    /\ InitGateway
    /\ InitExt
    /\ InitObservers

NextLww ==
    \/ SetLocalCall
    \/ SetLocalSelect
    \/ SetLocalReplace

SpecLww == InitLww /\ [][NextLww]_vars

\* SpecCas: the same calls, all on one node.
InitCas ==
    /\ InitNodes({SEED_NODE})
    /\ InitGateway
    /\ InitExt
    /\ InitObservers

SpecCas == InitCas /\ [][NextLww]_vars


(***************************************************************************)
(* Part 3: properties.                                                     *)
(***************************************************************************)

\* W and R as the specification states them: floor(n/2) + 1.
Majority(n) == (n \div 2) + 1

\* The owner list the gateway used for the request resp answers (the
\* snapshot is not changed by a request).
resp_owners == gw_get_owner_nodes(resp.key)

\* The record a /set request carries.
resp_record == [value |-> resp.value, ts |-> resp.ts, request_id |-> resp.request_id]

set_ok == resp.op = "set" /\ resp.status = 200

\* A request that passed admission and the stability gate and found owners.
resp_admitted ==
    /\ resp.op # "none"
    /\ gw_in_flight < IN_FLIGHT_LIMIT
    /\ is_ring_stable
    /\ Len(resp_owners) > 0

(* C1 (as claimed): whenever /set returns 200, at least W = floor(n/2)+1   *)
(* of the owners hold exactly the written record (value, ts, request_id)   *)
(* right after the response, whatever the owners held before.              *)
C1_QuorumHoldsWrittenRecord ==
    set_ok =>
        Cardinality({n \in Range(resp_owners) : kv[n][resp.key] = resp_record})
            >= Majority(Len(resp_owners))

(* C1 (amended): whenever /set returns 200, at least W owners each hold,   *)
(* right after answering, a record for the key that is the written record, *)
(* or carries the same request_id, or has a strictly greater ts.           *)
C1_QuorumHoldsWrittenOrNewer ==
    set_ok =>
        Cardinality({n \in Range(resp_owners) :
                        \/ kv[n][resp.key] = resp_record
                        \/ kv[n][resp.key].request_id = resp.request_id
                        \/ kv[n][resp.key].ts > resp.ts})
            >= Majority(Len(resp_owners))

\* A /set answered 200 while one owner kept a newer record of another
\* request and another owner stored the written record.
C1_Witness ==
    /\ set_ok
    /\ \E n \in Range(resp_owners) :
          /\ kv[n][resp.key].ts > resp.ts
          /\ kv[n][resp.key].request_id # resp.request_id
    /\ \E n \in Range(resp_owners) : kv[n][resp.key] = resp_record

(* C2 (as claimed): after a /set of key k with timestamp T returned 200,   *)
(* every later /get of k that returns 200 returns a record with ts >= T,   *)
(* whatever the owner RPCs of the read returned.                           *)
C2_ReadSeesAckedWrite ==
    (resp.op = "get" /\ resp.status = 200) => resp.ts >= hist_acked[resp.key]

(* C2 (amended): after a /set of key k with timestamp T returned 200 with  *)
(* at least W owners holding a record of ts >= T, every later /get of k    *)
(* that returns 200 after collecting R = floor(n/2)+1 records returns a    *)
(* record with ts >= T.                                                    *)
C2_QuorumReadSeesAckedWrite ==
    (/\ resp.op = "get"
     /\ resp.status = 200
     /\ Len(resp.results) >= Majority(Len(resp_owners)))
        => resp.ts >= hist_strong[resp.key]

\* A quorum read answered after an acknowledged write, while one owner
\* still holds an older record or none.
C2_Witness ==
    /\ resp.op = "get"
    /\ resp.status = 200
    /\ Len(resp.results) >= Majority(Len(resp_owners))
    /\ hist_strong[resp.key] > 0
    /\ \E n \in Range(resp_owners) : kv[n][resp.key].ts < hist_strong[resp.key]

(* C4: for every node and key, the ts of the stored record never           *)
(* decreases, whatever write is applied (gateway fan-out, initial sync,    *)
(* anti-entropy); a stored record is never removed.                        *)
C4_TsNeverDecreases ==
    [][\A n \in Nodes, k \in Keys : kv'[n][k].ts >= kv[n][k].ts]_vars

\* A /set with an older ts was answered while an owner kept its newer
\* record of another request.
C4_Witness ==
    /\ resp.op = "set"
    /\ resp.answered > 0
    /\ \A n \in Range(resp_owners) :
          /\ kv[n][resp.key].ts > resp.ts
          /\ kv[n][resp.key].request_id # resp.request_id

(* C8: an admitted /set on a stable ring with owners returns 200 "ok" if   *)
(* and only if the number of owners that answered 200 is at least          *)
(* W = floor(n/2)+1, and 503 "write_failed" otherwise; the W the gateway   *)
(* computes satisfies 1 <= W <= n and 2W > n for every n >= 1, W = 1 for   *)
(* one owner.                                                              *)
C8_SetOutcome ==
    /\ (resp.op = "set" /\ resp_admitted) =>
          /\ (resp.status = 200 /\ resp.body = "ok")
                <=> resp.answered >= Majority(Len(resp_owners))
          /\ (resp.status = 503 /\ resp.body = "write_failed")
                <=> resp.answered < Majority(Len(resp_owners))
    /\ \A n \in 1..Cardinality(Nodes) :
          /\ 1 <= quorum(n)
          /\ quorum(n) <= n
          /\ 2 * quorum(n) > n
    /\ quorum(1) = 1

\* Three owners, one RPC failed, the write is acknowledged.
C8_Witness ==
    /\ set_ok
    /\ Len(resp_owners) = 3
    /\ resp.answered = 2

(* C9 (as claimed): /get returns 404 only when the read reached the owners *)
(* and none of them held a record for the key, never merely because the    *)
(* owner RPCs failed; a key held by no node yields 404.                    *)
C9_NotFoundOnlyIfAbsent ==
    /\ (resp.op = "get" /\ resp.status = 404) =>
          /\ resp.answered = Len(resp_owners)
          /\ \A n \in Range(resp_owners) : kv[n][resp.key] = None
    /\ (/\ resp.op = "get"
        /\ resp_admitted
        /\ \A n \in Nodes : kv[n][resp.key] = None) => resp.status = 404

(* C10: when at least one owner returned a record, /get returns 200 with   *)
(* the value and ts of a collected record of maximal ts, also when fewer   *)
(* than R = floor(n/2)+1 records were collected; it contacts no further    *)
(* owner once R records are collected.                                     *)
C10_GetSelection ==
    (resp.op = "get" /\ Len(resp.results) >= 1) =>
        /\ resp.status = 200
        /\ \E i \in 1..Len(resp.results) :
              /\ resp.results[i].value = resp.value
              /\ resp.results[i].ts = resp.ts
        /\ \A i \in 1..Len(resp.results) : resp.results[i].ts <= resp.ts
        /\ Len(resp.results) <= Majority(Len(resp_owners))
        /\ resp.contacted < Len(resp_owners)
              => Len(resp.results) = Majority(Len(resp_owners))

\* A read of three owners that collected one record, fewer than R, and
\* answered 200; the owners hold records of different ts.
C10_Witness ==
    /\ resp.op = "get"
    /\ resp.status = 200
    /\ Len(resp_owners) = 3
    /\ Len(resp.results) = 1
    /\ \E n, m \in Range(resp_owners) : kv[n][resp.key].ts > kv[m][resp.key].ts


(* C3 (as claimed): at a node, for any sequence of deliveries in which a   *)
(* SET is delivered more than once, possibly interleaved with other SETs   *)
(* for the key, the stored record equals that of the same sequence with    *)
(* the later deliveries of that SET removed.                               *)
C3_RedeliveryChangesNothing ==
    \A n \in Nodes : kv[n] = kv_once[n]

(* C3 (amended): the same, provided the other SETs delivered for the key   *)
(* carry other request_ids and none of them delivered after the first      *)
(* delivery of the repeated SET has its ts.                                *)
C3_RedeliveryChangesNothingWithoutTie ==
    \A n \in Nodes : dl[n].since \in {"none", "other"} => kv[n] = kv_once[n]

\* The SET was delivered again after another SET of another request, and
\* the node holds that other request's record.
C3_Witness ==
    \E n \in Nodes :
        /\ dl[n].count = 2
        /\ dl[n].since = "other"
        /\ kv[n][dup.key] # None
        /\ kv[n][dup.key].request_id # dup.request_id


(* C5 (as claimed): once a /set without caller ts has been submitted to    *)
(* the gateway a second time, also with other clients' writes applied in   *)
(* between, every owner that applied the first submission holds what it    *)
(* would hold had the request been submitted once.                         *)
C5_RetryChangesNothing ==
    \A n \in retry.first : kv[n] = kv_once[n]


(* C6 (as claimed, at the fixpoint): when no anti-entropy round of any     *)
(* node against any ready peer changes a store any more, every key held by *)
(* a ready node is held by every owner, all with the same record.          *)
C6_QuiescentOwnersAgree ==
    AntiEntropyQuiescent =>
        \A k \in Keys :
            (\E n \in Nodes : Serving(n) /\ kv[n][k] # None) =>
                \A o1, o2 \in Range(node_get_owner_nodes(SEED_NODE, k)) :
                    kv[o1][k] # None /\ kv[o1][k] = kv[o2][k]

(* C7 (as claimed): after a /set of a key returned 200, while nodes join,  *)
(* sync and turn ready with no node failing and no further write, no /get  *)
(* of the key that passes admission and the stability gate returns 404.    *)
C7_NoNotFoundAfterAck ==
    (/\ resp.op = "get"
     /\ resp.status = 404
     /\ resp.answered = resp.contacted) => hist_acked[resp.key] = 0


\* The last successful refresh is older than the stable period.
snapshot_stale == now - last_ring_update >= RING_STABLE_PERIOD

(* C11: a /set or /get handled while the last successful membership        *)
(* refresh is older than RING_STABLE_PERIOD, or while the snapshot holds   *)
(* no ready node, is answered 503, contacts no node and changes no store.  *)
C11_GateBlocksFanout ==
    [][(resp'.op # "none" /\ (snapshot_stale \/ gw_ready_nodes = {}))
          => (resp'.status = 503 /\ resp'.contacted = 0 /\ kv' = kv)]_vars

\* A request was refused as not stable although the snapshot lists ready
\* nodes that hold the key: the refresh had aged.
C11_Witness ==
    /\ resp.op = "get"
    /\ resp.status = 503
    /\ resp.body = "not stable"
    /\ last_ring_update > 0
    /\ gw_ready_nodes # {}
    /\ \E n \in gw_ready_nodes : kv[n][resp.key] # None

\* Steps clockwise from the hash of a key to a hash on the ring.
clockwise(key, h) ==
    IF h > get_hash_key(key) THEN h - get_hash_key(key)
    ELSE h - get_hash_key(key) + 100

\* Steps clockwise from a key to the nearest virtual node of an address.
distance(key, n) ==
    LET ds == {clockwise(key, get_hash_label(n, v)) : v \in 0..(NUM_VNODES - 1)}
    IN  CHOOSE d \in ds : \A e \in ds : d <= e

Min2(a, b) == IF a <= b THEN a ELSE b

\* owners is the list of the nearest addresses of eligible clockwise from
\* key, nearest first, REPLICATION_FACTOR of them or all if there are fewer.
nearest_first(owners, eligible, key) ==
    /\ Range(owners) \subseteq eligible
    /\ \A i, j \in 1..Len(owners) : i < j => distance(key, owners[i]) < distance(key, owners[j])
    /\ Len(owners) = Min2(REPLICATION_FACTOR, Cardinality(eligible))
    /\ \A m \in eligible \ Range(owners) :
         \A i \in 1..Len(owners) : distance(key, owners[i]) < distance(key, m)

(* C12: the owner list of a key over a view is the first REPLICATION_FACTOR
   distinct addresses clockwise from the key, without duplicates, of length
   min(REPLICATION_FACTOR, number of ready non-dead nodes), and holds only
   nodes that are known, ready and not dead in that view (the gateway's
   snapshot has no dead set: known and ready). *)
C12_OwnerList ==
    owners_out.op = "owners" =>
      /\ nearest_first(owners_out.node,
                       {m \in known_nodes[SEED_NODE] :
                          /\ node_states[SEED_NODE][m] = "ready"
                          /\ m \notin dead_nodes[SEED_NODE]},
                       owners_out.key)
      /\ nearest_first(owners_out.gw,
                       {m \in gw_known_nodes : gw_node_states[m] = "ready"},
                       owners_out.key)

\* Four nodes are ready, one of them dead for the seed, one key wraps
\* around the end of the ring: three owners at the gateway, a different
\* list at the seed.
C12_Witness ==
    /\ owners_out.op = "owners"
    /\ owners_out.key = "key17"
    /\ Len(owners_out.gw) = REPLICATION_FACTOR
    /\ Cardinality({m \in gw_known_nodes : gw_node_states[m] = "ready"}) > REPLICATION_FACTOR
    /\ \E m \in Range(owners_out.gw) : m \in dead_nodes[SEED_NODE]
    /\ owners_out.node # owners_out.gw
    /\ \E m \in known_nodes[SEED_NODE] : node_states[SEED_NODE][m] = "joining"

Without(seq, n) == SelectSeq(seq, LAMBDA x : x # n)

IsPrefix(a, b) ==
    /\ Len(a) <= Len(b)
    /\ \A i \in 1..Len(a) : a[i] = b[i]

(* C18: adding one ready node changes the owner list of a key only by
   inserting it, and removing one only deletes it: the list over the
   larger set, the node taken out, is a prefix of the list over the
   smaller set. *)
C18_PlacementStable ==
    /\ owners_out.op = "add" =>
          IsPrefix(Without(owners_out.after, owners_out.n), owners_out.before)
    /\ owners_out.op = "remove" =>
          IsPrefix(Without(owners_out.before, owners_out.n), owners_out.after)

\* The added node takes the second place of a full owner list and pushes
\* the last owner out.
C18_Witness ==
    /\ owners_out.op = "add"
    /\ Len(owners_out.before) = REPLICATION_FACTOR
    /\ owners_out.after[2] = owners_out.n
    /\ owners_out.before[REPLICATION_FACTOR] \notin Range(owners_out.after)

\* The removed node was the first owner and a node that was no owner
\* takes the last place.
C18_WitnessRemove ==
    /\ owners_out.op = "remove"
    /\ owners_out.before[1] = owners_out.n
    /\ Len(owners_out.after) = REPLICATION_FACTOR
    /\ owners_out.after[REPLICATION_FACTOR] \notin Range(owners_out.before)

\* The threads executing a handler of a tier on one of the routes.
running(tier, eps) ==
    {t \in Threads : threads[t].pc = "running" /\ threads[t].tier = tier
                       /\ threads[t].ep \in eps}

\* Both counters stay between 0 and their cap and count exactly the
\* admitted requests that have not left the wrapper.
counters_exact ==
    /\ 0 <= gw_in_flight /\ gw_in_flight <= IN_FLIGHT_LIMIT
    /\ 0 <= in_flight[SEED_NODE] /\ in_flight[SEED_NODE] <= MAX_IN_FLIGHT
    /\ gw_in_flight = Cardinality(running("gateway", GatewayEndpoints))
    /\ in_flight[SEED_NODE] = Cardinality(running("node", node_load_shed))
    /\ (\A t \in Threads : threads[t].pc = "idle") =>
          gw_in_flight = 0 /\ in_flight[SEED_NODE] = 0

\* A request that reaches a wrapper whose counter is at the cap is
\* answered 503, no thread enters a handler and nothing else changes.
shed_at_cap ==
    /\ (resp' # resp /\ resp'.op # "none" /\ gw_in_flight = IN_FLIGHT_LIMIT
          /\ running("gateway", GatewayEndpoints)' = running("gateway", GatewayEndpoints))
         => /\ resp'.status = 503 /\ resp'.body = "gateway overloaded"
            /\ UNCHANGED <<gw_in_flight, threads, kv>>
    /\ (node_resp' # node_resp /\ node_resp'.ep \in node_load_shed
          /\ in_flight[SEED_NODE] = MAX_IN_FLIGHT
          /\ running("node", node_load_shed)' = running("node", node_load_shed))
         => /\ node_resp'.status = 503 /\ node_resp'.body = "node overloaded"
            /\ UNCHANGED <<in_flight, threads, kv>>
    /\ (gw_in_flight = IN_FLIGHT_LIMIT
          => running("gateway", GatewayEndpoints)' \subseteq running("gateway", GatewayEndpoints))
    /\ (in_flight[SEED_NODE] = MAX_IN_FLIGHT
          => running("node", node_load_shed)' \subseteq running("node", node_load_shed))

(* C13: at the gateway and at a node, under every interleaving of request
   threads, in_flight stays within 0..cap; a request that arrives at the cap
   is answered 503 without entering the handler and without changing
   in_flight; every admitted request decrements once, on return and on
   exception, so in_flight is the number of admitted requests still
   executing and 0 when none is. *)
C13_AdmissionCounter == [](counters_exact) /\ [][shed_at_cap]_vars

\* The node counter is at its cap with two handlers executing, one of them
\* after an earlier handler raised, and a third request was just answered
\* "node overloaded".
C13_Witness ==
    /\ in_flight[SEED_NODE] = MAX_IN_FLIGHT
    /\ Cardinality(running("node", node_load_shed)) = MAX_IN_FLIGHT
    /\ node_resp.status = 503
    /\ kv[SEED_NODE] # EmptyDb

\* The gateway counter is at its cap and a second request was just
\* answered "gateway overloaded".
C13_WitnessGateway ==
    /\ gw_in_flight = IN_FLIGHT_LIMIT
    /\ resp.body = "gateway overloaded"
    /\ in_flight[SEED_NODE] > 0

(* C14: every handler of an internal endpoint that is executing at a node
   counts toward the node's in_flight (so none executes beyond
   MAX_IN_FLIGHT). *)
C14_InternalEndpointsGated ==
    Cardinality(running("node", InternalEndpoints)) <= in_flight[SEED_NODE]

\* The outcomes the retry contract has retried.
Retryable == {"503", "exception", "timeout"}

\* A 4xx response other than 404.
ClientErrors == {"400"}

(* C15: an RPC is attempted at most 1 + max_retries times and then reported
   failed; a 200 ends the attempts at once; a 503, an exception or a timeout
   is followed by another attempt while attempts are left; a 4xx response
   other than 404 is followed by no further attempt. *)
C15_RetryContract ==
    /\ Len(rpc.log) <= 1 + max_retries
    /\ rpc.result = "None" =>
          Len(rpc.log) = 1 + max_retries /\ \A i \in 1..Len(rpc.log) : rpc.log[i] # "200"
    /\ \A i \in 1..Len(rpc.log) :
          rpc.log[i] = "200" => i = Len(rpc.log) /\ rpc.result = "200"
    /\ (/\ rpc.log # <<>>
        /\ rpc.log[Len(rpc.log)] \in Retryable
        /\ Len(rpc.log) < 1 + max_retries) => rpc.result = "pending"
    /\ \A i \in 1..Len(rpc.log) :
          rpc.log[i] \in ClientErrors => i = Len(rpc.log) /\ rpc.result # "pending"

\* Node v is down and every other node holds it in dead_nodes.
marked_dead(v) ==
    /\ main_pc[v] = "down"
    /\ \A n \in ThreeNodes \ {v} : v \in dead_nodes[n]

(* C16: after any one of three ready nodes is killed, the survivors
   eventually hold it in dead_nodes, and a /set issued after that eventually
   returns 200. *)
C16_AvailableAfterKill ==
    (\E v \in ThreeNodes : main_pc[v] = "down")
       ~> (\E v \in ThreeNodes :
             marked_dead(v) /\ resp.op = "set" /\ resp.status = 200)

\* The same for the two nodes the gateway does not poll.
C16_AvailableAfterKillOfOther ==
    (\E v \in ThreeNodes \ {SEED_NODE} : main_pc[v] = "down")
       ~> (\E v \in ThreeNodes :
             marked_dead(v) /\ resp.op = "set" /\ resp.status = 200)

\* The nodes whose process runs.
Running == {n \in ThreeNodes : main_pc[n] # "down"}

(* C17: within one node process, whatever bootstrap, /gossip handler, merge
   of a gossip reply or health check runs, an address in dead_nodes stays
   in dead_nodes. *)
C17_DeadSetGrows ==
    [][\A n \in ThreeNodes :
         (main_pc[n] # "down" /\ main_pc'[n] # "down")
            => dead_nodes[n] \subseteq dead_nodes'[n]]_vars

\* A node learned of a dead peer from a /gossip payload or reply, a second
\* one by its own health check, and a third bootstrapped from a view that
\* listed a dead node.
C17_Witness ==
    \E n, m \in Running :
      /\ n # m
      /\ dead_nodes[n] # {}
      /\ dead_nodes[m] # {}
      /\ dead_nodes[n] # dead_nodes[m]
      /\ \E d \in dead_nodes[n] : d \notin {n, m} /\ d \in dead_nodes[d]

(* C19: in every reachable state of a node no address is both in
   dead_nodes and in known_nodes, or both in dead_nodes and a key of
   node_states. *)
C19_DeadDisjoint ==
    \A n \in Running :
      /\ dead_nodes[n] \cap known_nodes[n] = {}
      /\ \A m \in dead_nodes[n] : node_states[n][m] = "absent"

(* C20: after startup a node's own address is in its known_nodes, is not in
   its own dead_nodes, and its own state is joining or ready. *)
C20_SelfMember ==
    \A n \in Running :
      /\ n \in known_nodes[n]
      /\ n \notin dead_nodes[n]
      /\ node_states[n][n] \in {"joining", "ready"}

(* C21: once a node's own state in its own view is ready it never becomes
   joining again, whatever /gossip payload or gossip reply the node
   merges. *)
C21_ReadyStaysReady ==
    [][\A n \in ThreeNodes :
         (main_pc[n] # "down" /\ node_states[n][n] = "ready")
            => node_states'[n][n] # "joining"]_vars

(* C22: when a joining node finishes initial sync and turns ready, its
   store holds a record for every key that a ready peer of its view stores
   and that the node owns in its view once it is ready. *)
C22_InitialSyncComplete ==
    [][\A n \in Nodes, k \in Keys :
         (/\ main_pc[n] = "joining"
          /\ main_pc'[n] = "ready"
          /\ \E p \in ready_peers(n) : Serving(p) /\ kv[p][k] # None
          /\ n \in Range(node_get_owner_nodes(n, k))')
            => kv'[n][k] # None]_vars

\* The calls of a sequence executed one at a time, in its order.
RECURSIVE serial(_, _)
serial(db, calls) ==
    IF calls = <<>> THEN db
    ELSE serial(internal_set_local(db, Head(calls).key, Head(calls).value,
                                   Head(calls).ts, Head(calls).request_id).db,
                Tail(calls))

\* No call of internal_set_local is in progress on node n.
quiet(n) == \A t \in LwwThreads : set_calls[n][t].pc = "idle"

\* The calls that returned on node n delivered distinct SETs with distinct
\* request_ids, each once.
distinct_sets(n) ==
    \A i, j \in 1..Len(delivered[n]) :
        i # j => delivered[n][i].request_id # delivered[n][j].request_id

(* C23: two nodes that received the same set of distinct SETs to a key (in
   any delivery order, SETs of equal ts included) end with the same stored
   record. *)
C23_OrderIndependent ==
    \A n, p \in LwwNodes :
        (/\ quiet(n) /\ quiet(p)
         /\ distinct_sets(n) /\ distinct_sets(p)
         /\ Range(delivered[n]) = Range(delivered[p]))
           => kv[n] = kv[p]

(* C27: whatever calls of internal_set_local run concurrently on a node,
   its store is the result of executing the calls that returned one at a
   time, in the order of their return, and no step replaces a record by one
   of smaller ts. *)
C27_Serializable ==
    /\ [](\A n \in LwwNodes : kv[n] = serial(EmptyDb, delivered[n]))
    /\ [][\A n \in LwwNodes, k \in Keys : kv'[n][k].ts >= kv[n][k].ts]_vars

\* Two calls overlapped on a node: while one held the lock with its row
\* selected, another one, of a smaller ts than the stored record, waited.
C27_Witness ==
    \E n \in LwwNodes, t, u \in LwwThreads :
        /\ set_calls[n][t].pc = "selected"
        /\ set_calls[n][u].pc = "called"
        /\ set_calls[n][t].row # None
        /\ set_calls[n][t].m.ts < set_calls[n][t].row.ts
        /\ set_calls[n][u].m.ts > set_calls[n][t].m.ts

(* C24: a health check round declares a peer dead only when more than
   DEAD_TIMEOUT has elapsed since the node learned of the peer or last
   reached its /status.  In SpecMember the clock stands at one reading, so
   every peer was learned at the present reading, nothing has elapsed and
   no round may declare a peer dead. *)
C24_NoDeathWithinTimeout ==
    [][\A n \in ThreeNodes :
         HealthCheck(n) => dead_nodes'[n] = dead_nodes[n]]_vars

\* app.py:138-145 with load_balancer.py:36-53 -- the ready nodes the
\* gateway builds its ring from when it polls node n: /nodes returns
\* known_nodes and node_states, and the gateway keeps the ready ones.
snapshot_ready(n) == {m \in known_nodes[n] : node_states[n][m] = "ready"}

(* C28: over every view of a node, the gateway's owner list computed from
   the /nodes snapshot of the view equals the node's own owner list, for
   every key. *)
C28_PlacementAgrees ==
    \A n \in ThreeNodes, k \in RingKeys :
        main_pc[n] # "down"
          => owners_of(snapshot_ready(n), k) = node_get_owner_nodes(n, k)

\* Address a is in the dead_nodes of node n and in neither its known_nodes
\* nor its node_states.
dead_in_view(n, a) ==
    /\ a \in dead_nodes[n]
    /\ a \notin known_nodes[n]
    /\ node_states[n][a] = "absent"

(* C25: once some running node has an address in its dead_nodes, the
   running nodes eventually all hold the same dead_nodes, with every
   address of it in neither their known_nodes nor their node_states (every
   running node keeps the seed as a gossip peer; dead_nodes only grow, so
   this is when each address has reached every node). *)
C25_DeadSetSpreads ==
    (\E n \in Running : dead_nodes[n] # {})
       ~> (\A n, m \in Running :
             /\ dead_nodes[n] = dead_nodes[m]
             /\ \A a \in dead_nodes[m] : dead_in_view(n, a))

\* All three nodes run and agree on a dead set that names a ready node:
\* no health check fails on a ready node, so the other nodes and the node
\* itself took the address from gossip.
C25_Witness ==
    /\ Running = ThreeNodes
    /\ \E a \in ThreeNodes :
          /\ main_pc[a] = "ready"
          /\ \A n \in ThreeNodes : dead_in_view(n, a)
    /\ \A n, m \in ThreeNodes : dead_nodes[n] = dead_nodes[m]

\* The running nodes hold one common view, in which every node that has
\* completed initial sync is ready.
converged ==
    \A n, m \in Running :
        /\ known_nodes[n] = known_nodes[m]
        /\ node_states[n] = node_states[m]
        /\ \A s \in ThreeNodes : main_pc[s] = "ready" => node_states[n][s] = "ready"

(* C26: under fair gossip scheduling the running nodes eventually hold the
   same known_nodes and node_states, with every node that completed initial
   sync listed as ready, and keep them from then on. *)
C26_GossipConverges == <>[]converged

====
